---- MODULE Spec2Model ----
(***************************************************************************)
(* Model of packages/modules/common/sdm.py (the Eastron SDM meter drivers  *)
(* and their query rate limiter) and of                                    *)
(* packages/modules/devices/sma/sma_sunny_island/device.py (the update     *)
(* pass over the components of one device).                                *)
(*                                                                         *)
(* Time is in milliseconds, as returned by Sdm._get_time_ms.  Register     *)
(* values are fixed-point numbers in tenths (500 stands for 50.0).         *)
(***************************************************************************)
EXTENDS Integers, Sequences, FiniteSets, TLC

\* ------------------------------------------------------------------ bounds

\* The clock of the model stops advancing at MaxTime.
MaxTime == 600

\* The two-driver model takes no step once the clock has reached MaxSharedTime.
MaxSharedTime == 250

\* Number of update_components passes the device model performs.
MaxPasses == 2

\* Number of components registered with the device.
NumComponents == 3

\* ------------------------------------------------------- program constants

WAIT_MS_BETWEEN_QUERIES == 100

SERIAL_REGISTER == 64512      \* 0xFC00
REG_IMPORTED == 72            \* 0x0048
REG_EXPORTED == 74            \* 0x004a
REG_FREQUENCY == 70           \* 0x46
REG_CURRENTS == 6             \* 0x06
REG_POWER_FACTORS == 30       \* 0x1E
REG_POWER == 12               \* 0x0C
REG_VOLTAGES == 0             \* 0x00

\* ------------------------------------------------------------ environment

Drivers == {1, 2}
Variants == {"Sdm630_72", "Sdm120"}
UnitIds == {1, 2}

\* Time that passes between two calls made by the caller.
CallerDelays == {50}
\* Duration of one blocking register read on the bus.
ReadDurations == {0, 50}

\* Register contents the meter can answer with (tenths).
EnergyRaw == {0, 15}
FrequencyRaw == {500, 1000, 1010}
ScalarRaw == {0, 1000}
VectorRaw == {<<0, 0, 0>>, <<1000, 1500, 1200>>}

\* The serial number stored in the holding register of the meter with a unit id.
DeviceSerial(u) == 4711 + u

NoTime == 0 - 1
NoValue == [none |-> TRUE]
NoRead == [t |-> NoTime, d |-> 0]
Idle == [op |-> "idle", d |-> 0, k |-> 0]

\* The outcome of one read_input_registers call: the value returned, or an exception.
ReadResult(ok, raw) == [ok |-> ok, raw |-> IF ok THEN raw ELSE NoValue]

VARIABLES
    now,            \* time.time_ns() / 1e6
    clientOpen,     \* the transport session of the drivers' client
    state,          \* per driver: "none", "constructing", "ready", "failed"
    cls,            \* per driver: its class
    id,             \* per driver: self.id
    last_query,     \* per driver: self.last_query
    serial_number,  \* per driver: self.serial_number
    fault_state,    \* per driver: self.fault_state (a handle, 0 when unset)
    faults,         \* per FaultState handle: what the fault sink recorded
    holdingReads,   \* per driver: holding-register reads issued so far
    reads,          \* per driver: issue times of its last two input reads
    devReads,       \* per unit id: time and driver of the last two input reads
    limited,        \* per driver: entry and return time of its last limiter call
    firstRead,      \* issue time of the first input read of the call in progress / last call
    call,           \* the call in progress
    acc,            \* results of the accessors called by get_counter_state
    log,            \* client and limiter events of the call in progress / last call
    raws,           \* what each input read of the call in progress / last call returned
    serialDone,     \* per driver: when its serial-number read ended, until its first input read
    checked,        \* check_meter_values calls of the call in progress / last call
    ret,            \* outcome of the last call
    client,         \* device.py: the nonlocal client ("None", "closed", "open")
    pass,           \* device.py: the update_components pass in progress
    compFaults,     \* device.py: per component, what its FaultState records
    updates,        \* device.py: per component, update() invocations in this pass
    before,         \* device.py: compFaults when the pass in progress began
    opens,          \* device.py: session opens in this pass
    closes,         \* device.py: session closes in this pass
    passes          \* device.py: passes started

sdmVars == <<now, clientOpen, state, cls, id, last_query, serial_number, fault_state,
             faults, holdingReads, reads, devReads, limited, firstRead, call, acc,
             log, raws, serialDone, checked, ret>>
devVars == <<client, pass, compFaults, updates, before, opens, closes, passes>>
vars == <<sdmVars, devVars>>

\* ------------------------------------------------------------- Sdm: helpers

Accessors == {"get_imported", "get_exported", "get_frequency", "get_currents",
              "get_power_factors", "get_power", "get_voltages"}

\* The accessors that read three registers in one burst on the three-phase meter.
VectorAccessors == {"get_currents", "get_power_factors", "get_power", "get_voltages"}

\* The input register an accessor reads.
Register(op) ==
    CASE op = "get_imported" -> REG_IMPORTED
      [] op = "get_exported" -> REG_EXPORTED
      [] op = "get_frequency" -> REG_FREQUENCY
      [] op = "get_currents" -> REG_CURRENTS
      [] op = "get_power_factors" -> REG_POWER_FACTORS
      [] op = "get_power" -> REG_POWER
      [] op = "get_voltages" -> REG_VOLTAGES

\* The number of FLOAT_32 values an accessor asks for in its one read.
Width(variant, op) ==
    IF variant = "Sdm630_72" /\ op \in VectorAccessors THEN 3 ELSE 1

\* What the client can return for the read of an accessor.
RawValues(variant, op) ==
    IF op \in {"get_imported", "get_exported"} THEN EnergyRaw
    ELSE IF op = "get_frequency" THEN FrequencyRaw
    ELSE IF variant = "Sdm630_72" THEN VectorRaw
    ELSE ScalarRaw

\* Mutant of Sum: the third phase is left out of the total.
SumOfTwoPhases(powers) == powers[1] + powers[2]

\* sum(powers)
Sum(powers) == powers[1] + powers[2] + powers[3]

\* Mutant of ScaleFrequency: a reading of exactly 100 is divided as well.
ScaleFrequencyFrom100(frequency) ==
    IF frequency >= 1000 THEN frequency \div 10 ELSE frequency

\* get_frequency: a reading above 100 (1000 tenths) is divided by 10.
ScaleFrequency(frequency) ==
    IF frequency > 1000 THEN frequency \div 10 ELSE frequency

\* Mutant of Convert: the single-phase meter repeats its reading for every phase.
ConvertRepeated(variant, op, raw) ==
    CASE op \in {"get_imported", "get_exported"} -> raw * 1000
      [] op = "get_frequency" -> ScaleFrequency(raw)
      [] op = "get_power" ->
            IF variant = "Sdm630_72" THEN <<raw, Sum(raw)>> ELSE <<<<raw, raw, raw>>, raw>>
      [] OTHER ->
            IF variant = "Sdm630_72" THEN raw ELSE <<raw, raw, raw>>

\* The value an accessor returns for the raw value it read.
Convert(variant, op, raw) ==
    CASE op \in {"get_imported", "get_exported"} -> raw * 1000
      [] op = "get_frequency" -> ScaleFrequency(raw)
      [] op = "get_power" ->
            IF variant = "Sdm630_72" THEN <<raw, Sum(raw)>> ELSE <<<<raw, 0, 0>>, raw>>
      [] OTHER ->
            IF variant = "Sdm630_72" THEN raw ELSE <<raw, 0, 0>>

\* str(...) of the UINT_32 read from the serial-number register.
Str(n) == [str |-> n]

\* Mutant of SleepTime: a call that has to wait always waits the full interval.
SleepTimeFull(elapsed_time) ==
    IF elapsed_time < WAIT_MS_BETWEEN_QUERIES THEN WAIT_MS_BETWEEN_QUERIES ELSE 0

\* _ensure_min_time_between_queries: the time the call sleeps.
SleepTime(elapsed_time) ==
    IF elapsed_time < WAIT_MS_BETWEEN_QUERIES
    THEN WAIT_MS_BETWEEN_QUERIES - elapsed_time
    ELSE 0

\* _ensure_min_time_between_queries: the value assigned to self.last_query, given
\* the time read on entry and the time at which the sleep (if any) has ended.
StoredQueryTime(current_time, wake_time) == current_time

\* _ensure_min_time_between_queries as a whole: when it returns and what it stores.
EnsureMinTime(d) ==
    LET current_time == now
        elapsed_time == current_time - last_query[d]
        wake_time == current_time + SleepTime(elapsed_time)
    IN  [entered |-> current_time,
         returned |-> wake_time,
         last_query |-> StoredQueryTime(current_time, wake_time)]

\* Events of the log.
Event(ev, addr, n) == [ev |-> ev, addr |-> addr, n |-> n]
OpenEvent == Event("open", 0, 0)
CloseEvent == Event("close", 0, 0)
LimitEvent == Event("limit", 0, 0)
InputRead(addr, n) == Event("input", addr, n)
HoldingRead(addr) == Event("holding", addr, 1)

Shift(pair, t) == <<pair[2], t>>

\* Mutant of Query: the accessor issues its read without calling the limiter.
QueryUnlimited(d, op, base, dur) ==
    /\ now + dur <= MaxTime
    /\ now' = now + dur
    /\ reads' = [reads EXCEPT ![d] = Shift(@, now)]
    /\ devReads' = [devReads EXCEPT ![id[d]] = Shift(@, [t |-> now, d |-> d])]
    /\ firstRead' = IF base = <<>> THEN now ELSE firstRead
    /\ serialDone' = [serialDone EXCEPT ![d] = NoTime]
    /\ log' = base \o <<InputRead(Register(op), Width(cls[d], op))>>
    /\ UNCHANGED <<last_query, limited>>

\* One rate-limited read, the common body of every accessor: the limiter runs, then
\* one read_input_registers call of duration dur is issued on the client.
Query(d, op, base, dur) ==
    LET lim == EnsureMinTime(d)
    IN  /\ lim.returned + dur <= MaxTime
        /\ now' = lim.returned + dur
        /\ last_query' = [last_query EXCEPT ![d] = lim.last_query]
        /\ limited' = [limited EXCEPT ![d] = <<lim.entered, lim.returned>>]
        /\ reads' = [reads EXCEPT ![d] = Shift(@, lim.returned)]
        /\ devReads' = [devReads EXCEPT ![id[d]] = Shift(@, [t |-> lim.returned, d |-> d])]
        /\ firstRead' = IF base = <<>> THEN lim.returned ELSE firstRead
        /\ serialDone' = [serialDone EXCEPT ![d] = NoTime]
        /\ log' = base \o <<LimitEvent, InputRead(Register(op), Width(cls[d], op))>>

Returned(op, d, value) == [op |-> op, d |-> d, status |-> "returned", value |-> value]
Raised(op, d) == [op |-> op, d |-> d, status |-> "raised", value |-> NoValue]
Pending == [op |-> "none", d |-> 0, status |-> "pending", value |-> NoValue]

\* ------------------------------------------------------------- Sdm: actions

\* Sdm.__init__ up to the entry of "with client" (the subclass passes its arguments on).
InitEnter(d, variant, modbus_id) ==
    /\ call = Idle
    /\ state[d] = "none"
    /\ state' = [state EXCEPT ![d] = "constructing"]
    /\ cls' = [cls EXCEPT ![d] = variant]
    /\ id' = [id EXCEPT ![d] = modbus_id]
    /\ last_query' = [last_query EXCEPT ![d] = now]
    /\ clientOpen' = TRUE
    /\ log' = <<OpenEvent>>
    /\ checked' = <<>>
    /\ ret' = Pending
    /\ call' = [op |-> "__init__", d |-> d, k |-> 1]
    /\ firstRead' = NoTime
    /\ raws' = <<>>
    /\ UNCHANGED <<devVars, now, serial_number, fault_state, faults, holdingReads, reads,
                   devReads, limited, acc, serialDone>>

\* Sdm.__init__: the read of the serial number, which may raise.
InitReadSerial(d, dur, ok) ==
    /\ call = [op |-> "__init__", d |-> d, k |-> 1]
    /\ now + dur <= MaxTime
    /\ now' = now + dur
    /\ holdingReads' = [holdingReads EXCEPT ![d] = @ + 1]
    /\ log' = Append(log, HoldingRead(SERIAL_REGISTER))
    /\ serial_number' =
          IF ok THEN [serial_number EXCEPT ![d] = Str(DeviceSerial(id[d]))]
          ELSE serial_number
    /\ call' = [call EXCEPT !.k = IF ok THEN 2 ELSE 3]
    /\ serialDone' = [serialDone EXCEPT ![d] = now + dur]
    /\ UNCHANGED <<devVars, raws, firstRead, clientOpen, state, cls, id, last_query, fault_state, faults, reads,
                   devReads, limited, acc, checked, ret>>

\* Sdm.__init__: the exit of "with client"; then the subclass stores fault_state,
\* unless the read raised and the exception leaves the constructor.
InitExit(d) ==
    /\ call.op = "__init__" /\ call.d = d /\ call.k \in {2, 3}
    /\ clientOpen' = FALSE
    /\ log' = Append(log, CloseEvent)
    /\ state' = [state EXCEPT ![d] = IF call.k = 2 THEN "ready" ELSE "failed"]
    /\ fault_state' = IF call.k = 2 THEN [fault_state EXCEPT ![d] = d] ELSE fault_state
    /\ ret' = IF call.k = 2 THEN Returned("__init__", d, NoValue) ELSE Raised("__init__", d)
    /\ call' = Idle
    /\ UNCHANGED <<devVars, raws, serialDone, firstRead, now, cls, id, last_query, serial_number, faults, holdingReads,
                   reads, devReads, limited, acc, checked>>

\* One call of an accessor by the caller of the driver: the limiter, one read that
\* returns raw or raises, the conversion of what was read.
Accessor(d, op) ==
    /\ call = Idle
    /\ state[d] = "ready"
    /\ \E dur \in ReadDurations : Query(d, op, <<>>, dur)
    /\ \E ok \in BOOLEAN, raw \in RawValues(cls[d], op) :
          /\ raws' = <<ReadResult(ok, raw)>>
          /\ ret' = IF ok THEN Returned(op, d, Convert(cls[d], op, raw)) ELSE Raised(op, d)
    /\ checked' = <<>>
    /\ UNCHANGED <<devVars, clientOpen, state, cls, id, serial_number, fault_state, faults,
                   holdingReads, call, acc>>

\* Mutant of GetSerialNumber: the serial number is read from the meter again.
GetSerialNumberRereads(d) ==
    /\ call = Idle
    /\ state[d] = "ready"
    /\ ret' = Returned("get_serial_number", d, Str(DeviceSerial(id[d])))
    /\ log' = <<HoldingRead(SERIAL_REGISTER)>>
    /\ holdingReads' = [holdingReads EXCEPT ![d] = @ + 1]
    /\ checked' = <<>>
    /\ firstRead' = NoTime
    /\ raws' = <<>>
    /\ UNCHANGED <<devVars, serialDone, now, clientOpen, state, cls, id, last_query, serial_number,
                   fault_state, faults, reads, devReads, limited, call, acc>>

\* get_serial_number
GetSerialNumber(d) ==
    /\ call = Idle
    /\ state[d] = "ready"
    /\ ret' = Returned("get_serial_number", d, serial_number[d])
    /\ log' = <<>>
    /\ checked' = <<>>
    /\ firstRead' = NoTime
    /\ raws' = <<>>
    /\ UNCHANGED <<devVars, serialDone, now, clientOpen, state, cls, id, last_query, serial_number,
                   fault_state, faults, holdingReads, reads, devReads, limited, call, acc>>

\* Mutant of CounterOrder: currents are read before voltages.
CounterOrderCurrentsFirst(variant) ==
    IF variant = "Sdm630_72"
    THEN <<"get_power", "get_imported", "get_exported", "get_currents", "get_voltages",
           "get_power_factors", "get_frequency">>
    ELSE <<"get_power", "get_imported", "get_exported", "get_currents", "get_frequency">>

\* The accessors get_counter_state calls, in the order Python evaluates them:
\* get_power first, then the keyword arguments of CounterState from top to bottom.
CounterOrder(variant) ==
    IF variant = "Sdm630_72"
    THEN <<"get_power", "get_imported", "get_exported", "get_voltages", "get_currents",
           "get_power_factors", "get_frequency">>
    ELSE <<"get_power", "get_imported", "get_exported", "get_currents", "get_frequency">>

\* A keyword argument CounterState is not given.
NotPassed == [not_passed |-> TRUE]

\* The CounterState get_counter_state builds from what its accessors returned.
CounterState(variant, a, serial) ==
    [imported |-> a["get_imported"],
     exported |-> a["get_exported"],
     power |-> a["get_power"][2],
     voltages |-> IF variant = "Sdm630_72" THEN a["get_voltages"] ELSE NotPassed,
     currents |-> a["get_currents"],
     powers |-> a["get_power"][1],
     power_factors |-> IF variant = "Sdm630_72" THEN a["get_power_factors"] ELSE NotPassed,
     frequency |-> a["get_frequency"],
     serial_number |-> serial]

\* What get_counter_state hands to check_meter_values.
CheckCall(d, counter_state) == [state |-> counter_state, fault_state |-> fault_state[d]]

\* Mutant of CheckCalls: the snapshot is returned without being checked.
CheckCallsSkipped(d, counter_state) == <<>>

\* The check_meter_values calls get_counter_state makes once the snapshot is built.
CheckCalls(d, counter_state) == <<CheckCall(d, counter_state)>>

\* What the fault sink may record on the FaultState it is handed.
SinkVerdicts == {"no_error", "warning"}

\* get_counter_state is entered.
GetCounterStateBegin(d) ==
    /\ call = Idle
    /\ state[d] = "ready"
    /\ call' = [op |-> "get_counter_state", d |-> d, k |-> 1]
    /\ acc' = <<>>
    /\ log' = <<>>
    /\ checked' = <<>>
    /\ ret' = Pending
    /\ firstRead' = NoTime
    /\ raws' = <<>>
    /\ UNCHANGED <<devVars, serialDone, now, clientOpen, state, cls, id, last_query, serial_number,
                   fault_state, faults, holdingReads, reads, devReads, limited>>

\* Mutant of ReadRaised: get_counter_state catches the exception of a read and
\* carries on with the value at hand.
ReadErrorSwallowed(ok) == FALSE

\* Whether a read_input_registers call with outcome ok leaves the accessor, and
\* with it get_counter_state, by an exception: nothing in either catches it.
ReadRaised(ok) == ~ok

\* get_counter_state calls its next accessor; an exception of the read leaves
\* get_counter_state.
GetCounterStateRead(d) ==
    /\ call.op = "get_counter_state" /\ call.d = d
    /\ call.k <= Len(CounterOrder(cls[d]))
    /\ LET op == CounterOrder(cls[d])[call.k]
       IN  /\ \E dur \in ReadDurations : Query(d, op, log, dur)
           /\ \E ok \in BOOLEAN, raw \in RawValues(cls[d], op) :
                 /\ raws' = Append(raws, ReadResult(ok, raw))
                 /\ IF ~ReadRaised(ok)
                    THEN /\ acc' = (op :> Convert(cls[d], op, raw)) @@ acc
                         /\ call' = [call EXCEPT !.k = @ + 1]
                         /\ ret' = ret
                    ELSE /\ acc' = <<>>
                         /\ call' = Idle
                         /\ ret' = Raised("get_counter_state", d)
    /\ UNCHANGED <<devVars, clientOpen, state, cls, id, serial_number, fault_state, faults,
                   holdingReads, checked>>

\* get_counter_state builds the CounterState, hands it to check_meter_values and
\* returns it.
GetCounterStateReturn(d) ==
    /\ call.op = "get_counter_state" /\ call.d = d
    /\ call.k = Len(CounterOrder(cls[d])) + 1
    /\ LET counter_state == CounterState(cls[d], acc, serial_number[d])
       IN  /\ checked' = CheckCalls(d, counter_state)
           /\ \E verdict \in SinkVerdicts :
                 faults' = [h \in DOMAIN faults |->
                              IF \E i \in 1..Len(checked') : checked'[i].fault_state = h
                              THEN verdict ELSE faults[h]]
           /\ ret' = Returned("get_counter_state", d, counter_state)
    /\ call' = Idle
    /\ acc' = <<>>
    /\ UNCHANGED <<devVars, firstRead, now, clientOpen, state, cls, id, last_query, serial_number,
                   fault_state, holdingReads, reads, devReads, limited, log, raws, serialDone>>

\* Time passes between two calls.
Tick ==
    /\ call = Idle
    /\ \E delay \in CallerDelays :
          /\ now + delay <= MaxTime
          /\ now' = now + delay
    /\ UNCHANGED <<devVars, firstRead, clientOpen, state, cls, id, last_query, serial_number, fault_state,
                   faults, holdingReads, reads, devReads, limited, call, acc, log,
                   raws, serialDone, checked, ret>>

SdmInit ==
    /\ now = 0
    /\ clientOpen = FALSE
    /\ state = [d \in Drivers |-> "none"]
    /\ cls = [d \in Drivers |-> "none"]
    /\ id = [d \in Drivers |-> 0]
    /\ last_query = [d \in Drivers |-> 0]
    /\ serial_number = [d \in Drivers |-> Str(0)]
    /\ fault_state = [d \in Drivers |-> 0]
    /\ faults = [h \in Drivers |-> "no_error"]
    /\ holdingReads = [d \in Drivers |-> 0]
    /\ reads = [d \in Drivers |-> <<NoTime, NoTime>>]
    /\ devReads = [u \in UnitIds |-> <<NoRead, NoRead>>]
    /\ firstRead = NoTime
    /\ limited = [d \in Drivers |-> <<NoTime, NoTime>>]
    /\ call = Idle
    /\ acc = <<>>
    /\ log = <<>>
    /\ raws = <<>>
    /\ serialDone = [d \in Drivers |-> NoTime]
    /\ checked = <<>>
    /\ ret = Pending

\* Construction and the calls of the caller on driver d.
SdmStep(d) ==
    \/ \E variant \in Variants, modbus_id \in UnitIds : InitEnter(d, variant, modbus_id)
    \/ \E dur \in ReadDurations, ok \in BOOLEAN : InitReadSerial(d, dur, ok)
    \/ InitExit(d)
    \/ \E op \in Accessors : Accessor(d, op)
    \/ GetSerialNumber(d)
    \/ GetCounterStateBegin(d)
    \/ GetCounterStateRead(d)
    \/ GetCounterStateReturn(d)

\* One driver instance and its caller.
SdmNext == SdmStep(1) \/ Tick

\* ---------------------------------------------------------------- device.py

Components == 1..NumComponents

\* The elements of S in registration order.
InOrder(S) ==
    CHOOSE s \in [1..Cardinality(S) -> S] :
        \A i, j \in 1..Cardinality(S) : i < j => s[i] < s[j]

\* The collections update_components can be handed.
ComponentLists == {InOrder(S) : S \in SUBSET Components}

NoPass == [pc |-> "idle", components |-> <<>>, i |-> 0]

\* client.__enter__ and client.__exit__: the scoped session bracket.
ClientEnter(session) == "open"
ClientExit(session) == "closed"

\* SingleComponentUpdateContext.__exit__: what it records on the FaultState it was
\* given, and whether it swallows the exception of the update.
ContextRecord(raised) == IF raised THEN "error" ELSE "no_error"
ContextSuppresses(raised) == TRUE

\* Mutant of WithClientExit: the session is entered without a with statement and
\* nothing calls __exit__.
WithClientExitSkipped(session) == session

\* "with client:" is left, normally or by an exception: __exit__ is called.
WithClientExit(session) == ClientExit(session)

\* Mutant of ComponentFaultState: every context is given the FaultState of the
\* first registered component.
FirstComponentFaultState(c) == 1

\* The FaultState handed to the context of component c: component.fault_state.
ComponentFaultState(c) == c

\* Mutant of NextIteration: the context wraps the whole loop, so an exception it
\* swallows ends the loop.
NextIterationStopsOnError(i, n, raised) == IF raised THEN n + 1 ELSE i + 1

\* The position of the loop after the body for position i of n has been left
\* without an exception reaching the for statement.
NextIteration(i, n, raised) == i + 1

\* initializer
Initializer ==
    /\ client = "None"
    /\ client' = "closed"
    /\ UNCHANGED <<sdmVars, pass, compFaults, updates, before, opens, closes, passes>>

\* update_components is called and enters "with client".  ConfigurableDevice has run
\* the initializer before a MultiComponentUpdater is ever called.
UpdateComponentsEnter(components) ==
    /\ client = "closed"
    /\ pass.pc \in {"idle", "returned", "raised"}
    /\ passes < MaxPasses
    /\ passes' = passes + 1
    /\ client' = ClientEnter(client)
    /\ opens' = IF client' = "open" /\ client = "closed" THEN 1 ELSE 0
    /\ closes' = 0
    /\ updates' = [c \in Components |-> <<>>]
    /\ before' = compFaults
    /\ pass' = [pc |-> "loop", components |-> components, i |-> 1]
    /\ UNCHANGED <<sdmVars, compFaults>>

\* Mutant of Current: the collection is walked from its end.
CurrentReversed(components, i) == components[Len(components) + 1 - i]

\* The component the for statement binds in its i-th iteration.
Current(components, i) == components[i]

\* One iteration of the loop: component.update() inside its
\* SingleComponentUpdateContext.
UpdateComponent(raised) ==
    /\ pass.pc = "loop"
    /\ pass.i <= Len(pass.components)
    /\ LET c == Current(pass.components, pass.i)
       IN  /\ updates' = [updates EXCEPT ![c] =
                            Append(@, [raised |-> raised, session |-> client])]
           /\ compFaults' = [compFaults EXCEPT ![ComponentFaultState(c)] =
                               ContextRecord(raised)]
    /\ pass' = IF raised /\ ~ContextSuppresses(raised)
               THEN [pass EXCEPT !.pc = "raising"]
               ELSE [pass EXCEPT !.i = NextIteration(pass.i, Len(pass.components), raised)]
    /\ UNCHANGED <<sdmVars, client, before, opens, closes, passes>>

\* The loop is over, or an exception leaves it: "with client" is left and
\* update_components returns or raises.
UpdateComponentsExit ==
    /\ \/ pass.pc = "loop" /\ pass.i > Len(pass.components)
       \/ pass.pc = "raising"
    /\ client' = WithClientExit(client)
    /\ closes' = IF client' = "closed" /\ client = "open" THEN closes + 1 ELSE closes
    /\ pass' = [pass EXCEPT !.pc = IF pass.pc = "loop" THEN "returned" ELSE "raised"]
    /\ UNCHANGED <<sdmVars, compFaults, updates, before, opens, passes>>

\* Two driver instances on one client, called one after the other by one caller.
SharedAccessors == {"get_power", "get_frequency"}

SharedAccessor(d, op) == now < MaxSharedTime /\ Accessor(d, op)

SharedTick == now < MaxSharedTime /\ Tick

SharedNext ==
    \/ \E d \in Drivers, variant \in Variants, modbus_id \in UnitIds :
          InitEnter(d, variant, modbus_id)
    \/ \E d \in Drivers, dur \in ReadDurations, ok \in BOOLEAN : InitReadSerial(d, dur, ok)
    \/ \E d \in Drivers : InitExit(d)
    \/ \E d \in Drivers, op \in SharedAccessors : SharedAccessor(d, op)
    \/ SharedTick

DevInit ==
    /\ client = "None"
    /\ pass = NoPass
    /\ compFaults = [c \in Components |-> "none"]
    /\ updates = [c \in Components |-> <<>>]
    /\ before = [c \in Components |-> "none"]
    /\ opens = 0
    /\ closes = 0
    /\ passes = 0

DevNext ==
    \/ Initializer
    \/ \E components \in ComponentLists : UpdateComponentsEnter(components)
    \/ \E raised \in BOOLEAN : UpdateComponent(raised)
    \/ UpdateComponentsExit

Init == SdmInit /\ DevInit

\* The meter driver, with the device left as constructed.
SpecSdm == Init /\ [][SdmNext]_vars

\* The device, with the meter driver left unconstructed.
SpecDevice == Init /\ [][DevNext]_vars

\* Two meter drivers attached to the same client.
SpecShared == Init /\ [][SharedNext]_vars

Next == SdmNext \/ DevNext

Spec == Init /\ [][Next]_vars

\* ------------------------------------------------------------------ claims

InputsOf(events) == SelectSeq(events, LAMBDA e : e.ev = "input")
HoldingsOf(events) == SelectSeq(events, LAMBDA e : e.ev = "holding")

CounterStateReturned ==
    ret.op = "get_counter_state" /\ ret.status = "returned"

\* C1: any two consecutive input-register reads one driver instance issues are at
\* least WAIT_MS_BETWEEN_QUERIES (100 ms) apart, whichever accessors issued them.
C1_ReadsOfOneDriverSpaced ==
    \A d \in Drivers :
        reads[d][1] # NoTime => reads[d][2] - reads[d][1] >= 100

\* C2: a get_counter_state call that returned after k register reads took at least
\* (k - 1) * 100 ms from its first read to its last read.
C2_SnapshotTakesItsSpacing ==
    CounterStateReturned =>
        reads[ret.d][2] - firstRead >= (Len(InputsOf(log)) - 1) * 100

\* C3: in one update_components pass an error of one component's update never
\* leaves the loop, and every component listed after a failed one still has its
\* update() invoked in that pass.
C3_FailureIsolated ==
    /\ pass.pc \notin {"raising", "raised"}
    /\ pass.pc = "loop" =>
          \A j \in 1..Len(pass.components) :
              j < pass.i => Len(updates[pass.components[j]]) = 1
    /\ pass.pc = "returned" =>
          \A j \in 1..Len(pass.components) : Len(updates[pass.components[j]]) = 1

\* C3 witness: a pass has returned in which a component failed and a component
\* listed after it was updated.
C3_Witness ==
    /\ pass.pc = "returned"
    /\ \E j, k \in 1..Len(pass.components) :
          /\ j < k
          /\ updates[pass.components[j]][1].raised
          /\ Len(updates[pass.components[k]]) = 1

\* C4: update_components opens the session once before the first component update
\* and closes it once on every exit path; once update_components has returned or
\* raised the session is closed.
C4_SessionBracket ==
    /\ pass.pc \in {"loop", "raising"} => client = "open" /\ opens = 1 /\ closes = 0
    /\ pass.pc \in {"returned", "raised"} => client = "closed" /\ opens = 1 /\ closes = 1
    /\ \A c \in Components :
          \A n \in 1..Len(updates[c]) : updates[c][n].session = "open"

\* C4 witness: a pass over several components, some failed and some not, has
\* returned.
C4_Witness ==
    /\ pass.pc = "returned"
    /\ \E c \in Components : Len(updates[c]) = 1 /\ updates[c][1].raised
    /\ \E c \in Components : Len(updates[c]) = 1 /\ ~updates[c][1].raised

\* C5: the outcome of each component's update is recorded on that component's own
\* FaultState (a failure as an error, a success as no error), and the FaultState of
\* a component not updated in the pass is as it was when the pass began.
C5_FaultAttribution ==
    pass.pc # "idle" =>
        \A c \in Components :
            IF Len(updates[c]) = 0
            THEN compFaults[c] = before[c]
            ELSE compFaults[c] =
                    (IF updates[c][Len(updates[c])].raised THEN "error" ELSE "no_error")

\* C5 witness: in a returned pass the first listed component failed and the second
\* succeeded.
C5_Witness ==
    /\ pass.pc = "returned"
    /\ Len(pass.components) >= 2
    /\ updates[pass.components[1]][1].raised
    /\ ~updates[pass.components[2]][1].raised

\* The reads of the three-phase snapshot: power 0x0C, imported 0x48, exported 0x4A,
\* voltages 0x00, currents 0x06, power factors 0x1E, frequency 0x46.
ThreePhaseReads ==
    <<[ev |-> "input", addr |-> 12, n |-> 3], [ev |-> "input", addr |-> 72, n |-> 1],
      [ev |-> "input", addr |-> 74, n |-> 1], [ev |-> "input", addr |-> 0, n |-> 3],
      [ev |-> "input", addr |-> 6, n |-> 3], [ev |-> "input", addr |-> 30, n |-> 3],
      [ev |-> "input", addr |-> 70, n |-> 1]>>

\* C6: Sdm630_72.get_counter_state issues its reads in the fixed order power,
\* imported, exported, voltages, currents, power factors, frequency, each directly
\* after a call of the rate limiter; a call that returns has issued exactly these 7
\* reads, none twice.
C6_ThreePhaseReadOrder ==
    /\ (call.op = "get_counter_state" /\ cls[call.d] = "Sdm630_72") =>
          /\ InputsOf(log) = SubSeq(ThreePhaseReads, 1, call.k - 1)
          /\ HoldingsOf(log) = <<>>
          /\ \A i \in 1..Len(log) :
                log[i].ev = "input" => i > 1 /\ log[i - 1].ev = "limit"
    /\ (CounterStateReturned /\ cls[ret.d] = "Sdm630_72") =>
          /\ InputsOf(log) = ThreePhaseReads
          /\ Len(log) = 14
          /\ \A i \in 1..Len(log) :
                log[i].ev = "input" => i > 1 /\ log[i - 1].ev = "limit"

\* C6 witness: a get_counter_state call of a three-phase driver has returned.
C6_Witness ==
    CounterStateReturned /\ cls[ret.d] = "Sdm630_72" /\ Len(InputsOf(log)) = 7

\* C7: when get_counter_state returns a snapshot, check_meter_values has been
\* called exactly once in that call, after the last read, with the returned snapshot
\* and the driver's own fault_state; it is not called while reads are outstanding
\* nor by a call that raised.
C7_SnapshotChecked ==
    /\ CounterStateReturned =>
          /\ Len(checked) = 1
          /\ checked[1].state = ret.value
          /\ checked[1].fault_state = ret.d
    /\ call.op = "get_counter_state" => checked = <<>>
    /\ (ret.op = "get_counter_state" /\ ret.status = "raised") => checked = <<>>

\* C7 witness: a single-phase get_counter_state call has returned its snapshot.
C7_Witness ==
    CounterStateReturned /\ cls[ret.d] = "Sdm120" /\ Len(InputsOf(log)) = 5

\* C8: constructing a driver opens one session, issues one holding-register read
\* of 0xFC00 and no input-register read, and closes the session; no call made on
\* the driver afterwards issues a holding-register read, and get_serial_number and
\* get_counter_state return the serial number stored by the constructor.
C8_OneSerialRead ==
    /\ \A d \in Drivers :
          /\ state[d] = "none" => holdingReads[d] = 0
          /\ state[d] \in {"ready", "failed"} => holdingReads[d] = 1
    /\ (ret.op = "__init__" /\ ret.status # "pending") =>
          /\ log = <<[ev |-> "open", addr |-> 0, n |-> 0],
                     [ev |-> "holding", addr |-> 64512, n |-> 1],
                     [ev |-> "close", addr |-> 0, n |-> 0]>>
          /\ ~clientOpen
    /\ clientOpen => call.op = "__init__"
    /\ (call.op # "__init__" /\ ret.op # "__init__") => HoldingsOf(log) = <<>>
    /\ (ret.op = "get_serial_number" /\ ret.status = "returned") =>
          ret.value = [str |-> DeviceSerial(id[ret.d])]
    /\ CounterStateReturned =>
          ret.value.serial_number = [str |-> DeviceSerial(id[ret.d])]

\* C8 witness: get_serial_number has returned on a constructed driver that has
\* already issued input reads.
C8_Witness ==
    /\ ret.op = "get_serial_number" /\ ret.status = "returned"
    /\ reads[ret.d][1] # NoTime

\* C9: after a call of the rate limiter has returned, last_query is the time at
\* which it returned (the time after any wait).
C9_LastQueryIsReturnTime ==
    \A d \in Drivers :
        limited[d][2] # NoTime => last_query[d] = limited[d][2]

\* C10: with two driver instances attached to the same unit id of one client, two
\* consecutive reads that reach that device from different instances are at least
\* 100 ms apart.
C10_ReadsOfOneDeviceSpaced ==
    \A u \in UnitIds :
        (/\ \E d1, d2 \in Drivers :
               d1 # d2 /\ state[d1] = "ready" /\ state[d2] = "ready"
                       /\ id[d1] = u /\ id[d2] = u
         /\ devReads[u][1].t # NoTime
         /\ devReads[u][1].d # devReads[u][2].d)
        => devReads[u][2].t - devReads[u][1].t >= 100

\* The accessor call that returned last, its one successful read and nothing else.
AccessorReturned(op) ==
    /\ ret.op = op /\ ret.status = "returned"
    /\ Len(raws) = 1 /\ raws[1].ok

\* C11: get_frequency returns raw / 10 when the raw reading is above 100 (1000
\* tenths) and the raw reading itself otherwise, 100 included; it issues one read,
\* of register 0x46.
C11_FrequencyScaling ==
    (ret.op = "get_frequency" /\ ret.status = "returned") =>
        /\ AccessorReturned("get_frequency")
        /\ InputsOf(log) = <<[ev |-> "input", addr |-> 70, n |-> 1]>>
        /\ raws[1].raw > 1000 => ret.value * 10 = raws[1].raw
        /\ raws[1].raw <= 1000 => ret.value = raws[1].raw

\* C11 witness: get_frequency has returned a tenth of a raw reading above 100.
C11_Witness ==
    /\ AccessorReturned("get_frequency")
    /\ raws[1].raw = 1010
    /\ ret.value = 101

\* C12: on the single-phase meter get_currents, get_voltages and get_power_factors
\* return 3 elements, the scalar read followed by two zeros; get_power returns such
\* a vector together with the scalar itself.
C12_SinglePhasePadding ==
    (ret.status = "returned" /\ ret.op \in Accessors /\ cls[ret.d] = "Sdm120") =>
        /\ ret.op \in {"get_currents", "get_voltages", "get_power_factors"} =>
              /\ AccessorReturned(ret.op)
              /\ Len(ret.value) = 3
              /\ ret.value[1] = raws[1].raw
              /\ ret.value[2] = 0 /\ ret.value[3] = 0
        /\ ret.op = "get_power" =>
              /\ AccessorReturned(ret.op)
              /\ Len(ret.value[1]) = 3
              /\ ret.value[1][1] = raws[1].raw
              /\ ret.value[1][2] = 0 /\ ret.value[1][3] = 0
              /\ ret.value[2] = raws[1].raw

\* C12 witness: get_voltages of a single-phase driver has returned a reading other
\* than zero.
C12_Witness ==
    /\ AccessorReturned("get_voltages")
    /\ cls[ret.d] = "Sdm120"
    /\ raws[1].raw = 1000

\* C13: three-phase get_power returns the vector read in one burst from 0x0C and
\* the sum of its three elements; the snapshot of get_counter_state carries that
\* vector as powers and that sum as power, both from the one power read of the call.
C13_ThreePhasePower ==
    /\ (ret.op = "get_power" /\ ret.status = "returned" /\ cls[ret.d] = "Sdm630_72") =>
          /\ AccessorReturned("get_power")
          /\ InputsOf(log) = <<[ev |-> "input", addr |-> 12, n |-> 3]>>
          /\ ret.value[1] = raws[1].raw
          /\ Len(ret.value[1]) = 3
          /\ ret.value[2] = raws[1].raw[1] + raws[1].raw[2] + raws[1].raw[3]
    /\ (CounterStateReturned /\ cls[ret.d] = "Sdm630_72") =>
          /\ \A i \in 1..Len(InputsOf(log)) : InputsOf(log)[i].addr = 12 <=> i = 1
          /\ Len(raws) = Len(InputsOf(log))
          /\ ret.value.powers = raws[1].raw
          /\ ret.value.power = raws[1].raw[1] + raws[1].raw[2] + raws[1].raw[3]

\* C13 witness: a three-phase snapshot with phase powers 100.0, 150.0, 120.0 and
\* power 370.0 has been returned.
C13_Witness ==
    /\ CounterStateReturned
    /\ cls[ret.d] = "Sdm630_72"
    /\ ret.value.powers = <<1000, 1500, 1200>>
    /\ ret.value.power = 3700

\* C14: the snapshot a single-phase get_counter_state returns carries, as voltages
\* and as power_factors, the vectors [x, 0, 0] of the values read from registers
\* 0x00 and 0x1E during that call.
C14_SinglePhaseSnapshotFields ==
    (CounterStateReturned /\ cls[ret.d] = "Sdm120") =>
        \E i, j \in 1..Len(InputsOf(log)) :
            /\ InputsOf(log)[i].addr = 0
            /\ InputsOf(log)[j].addr = 30
            /\ ret.value.voltages = <<raws[i].raw, 0, 0>>
            /\ ret.value.power_factors = <<raws[j].raw, 0, 0>>

\* C15: a read that raises is the last read of its call: the call is over and has
\* raised, without a value and without a call of check_meter_values; no step of a
\* get_counter_state call that does not return a snapshot writes a FaultState.
C15_ReadErrorPropagates ==
    /\ [](/\ \A i \in 1..Len(raws) :
                ~raws[i].ok =>
                    /\ i = Len(raws)
                    /\ call = Idle
                    /\ ret.status = "raised"
                    /\ ret.value = NoValue
                    /\ checked = <<>>
          /\ (ret.op = "get_counter_state" /\ ret.status = "raised") =>
                /\ call = Idle
                /\ checked = <<>>
                /\ Len(raws) = Len(InputsOf(log))
                /\ ~raws[Len(raws)].ok)
    /\ [][(call.op = "get_counter_state"
              /\ ~(ret'.op = "get_counter_state" /\ ret'.status = "returned"))
          => (faults' = faults /\ fault_state' = fault_state)]_vars

\* C15 witness: get_counter_state has raised at its third read or later.
C15_Witness ==
    /\ ret.op = "get_counter_state" /\ ret.status = "raised"
    /\ Len(raws) >= 3
    /\ raws[1].ok /\ raws[2].ok

\* C16: an accessor call consists of one call of the rate limiter followed by one
\* input-register read at the time the limiter returned; in every call each read
\* comes directly after a limiter call and each limiter call directly before a
\* read; no accessor and no get_counter_state opens or closes the session.
C16_LimiterThenOneRead ==
    /\ (ret.op \in Accessors /\ ret.status # "pending") =>
          /\ Len(log) = 2
          /\ log[1].ev = "limit"
          /\ log[2].ev = "input"
          /\ limited[ret.d][2] = reads[ret.d][2]
          /\ ~clientOpen
    /\ (call.op # "__init__" /\ ret.op # "__init__") =>
          /\ \A i \in 1..Len(log) :
                /\ log[i].ev \in {"limit", "input"}
                /\ log[i].ev = "input" <=> i % 2 = 0
          /\ Len(log) % 2 = 0
          /\ ~clientOpen
    /\ \A d \in Drivers : reads[d][2] = limited[d][2]

\* C16 witness: get_power_factors has returned after its limiter call and its read
\* of 0x1E.
C16_Witness ==
    /\ AccessorReturned("get_power_factors")
    /\ log = <<[ev |-> "limit", addr |-> 0, n |-> 0],
               [ev |-> "input", addr |-> 30, n |-> Len(ret.value)]>>

\* C17: a call of the rate limiter entered elapsed ms after last_query suspends the
\* caller for 100 - elapsed ms when elapsed < 100 and not at all otherwise, never
\* for more than 100 ms.
C17_SuspensionTime ==
    [][\A d \in Drivers :
          limited'[d] # limited[d] =>
              LET elapsed == now - last_query[d]
                  suspended == limited'[d][2] - limited'[d][1]
              IN  /\ limited'[d][1] = now
                  /\ elapsed < 100 => suspended = 100 - elapsed
                  /\ elapsed >= 100 => suspended = 0
                  /\ suspended <= 100]_vars

\* C17 witness: a limiter call entered 50 ms after last_query has suspended its
\* caller for the remaining 50 ms.
C17_Witness ==
    \E d \in Drivers :
        /\ limited[d][1] # NoTime
        /\ limited[d][2] - limited[d][1] = 50
        /\ last_query[d] = limited[d][1]

\* C18: the first input-register read a driver issues after its construction is
\* issued at least 100 ms after its serial-number read has ended.
C18_FirstReadAfterSerialRead ==
    [][\A d \in Drivers :
          (serialDone[d] # NoTime /\ reads'[d] # reads[d]) =>
              reads'[d][2] - serialDone[d] >= 100]_vars

\* C19: in an update_components pass the components are updated one by one in the
\* order of the collection, each exactly once and none outside the collection, and
\* every update happens in the session the pass opened once and has not yet closed.
C19_EachOnceInOrderInSession ==
    /\ pass.pc \in {"loop", "returned"} =>
          /\ \A j \in 1..Len(pass.components) :
                Len(updates[pass.components[j]]) =
                    (IF pass.pc = "returned" \/ j < pass.i THEN 1 ELSE 0)
          /\ \A c \in Components :
                (\A j \in 1..Len(pass.components) : pass.components[j] # c) =>
                    updates[c] = <<>>
    /\ \A c \in Components :
          updates[c] # <<>> =>
              /\ opens = 1
              /\ closes = (IF pass.pc = "loop" THEN 0 ELSE 1)
              /\ \A n \in 1..Len(updates[c]) : updates[c][n].session = "open"

\* C19 witness: a pass over three components has returned with each of them
\* updated once.
C19_Witness ==
    /\ pass.pc = "returned"
    /\ Len(pass.components) >= 3
    /\ \A j \in 1..Len(pass.components) : Len(updates[pass.components[j]]) = 1
    /\ client = "closed"

====
